---- MODULE Spec2Model ----
(***************************************************************************)
(* Model of the syclops postprocessing coordination layer:                 *)
(*   - the metadata ledger written by the renderer through                 *)
(*     AtomicYAMLWriter (utility/general_utils.py),                        *)
(*   - the postprocessing unit state machine                               *)
(*     (postprocessing/postprocessor_base.py, postprocessor_interface.py), *)
(*   - the job runner (postprocessing/main.py).                            *)
(* A Python dict is modelled as an ordered dictionary: a sequence of       *)
(* <<key, value>> pairs in insertion order.  The top level of a ledger is  *)
(* a record whose DOMAIN is the set of keys present.                       *)
(***************************************************************************)
EXTENDS Integers, Sequences, FiniteSets, TLC

\* ------------------------------------------------------------------ bounds

\* Steps (frames) of the job are 0..MaxStep.
MaxStep == 1

\* How often the postprocessing process may be started afresh.
MaxRestarts == 1

\* Height and width of the small images the bounding-box transform is run on.
SmallH == 3

SmallW == 6

\* The per-process seeds of Python's built-in hash() (PYTHONHASHSEED).
HashSeeds == {0, 1}

Steps == 0..MaxStep

\* The job's "steps" setting: the number of frames the renderer emits.
JobSteps == MaxStep + 1

\* ------------------------------------------------- processes, paths, config

\* Ledgers of the renderer's outputs (one metadata.yaml per output folder).
SourcePaths == {"s1", "s2"}

\* Renderer processes writing into the same output tree.
Writers == {"r1", "r2"}

\* Postprocessing units a job config may name.
Units == {"A", "B"}

\* A unit's ledger is <output_folder>/<id>_metadata.yaml: named by its id.
Paths == SourcePaths \cup Units

NoHolder == "none"

NoPath == ""

\* ------------------------------------------------------ ordered dictionaries

\* The empty dict {}.
EmptyDict == <<>>

\* list(d.keys())
Keys(d) == [i \in DOMAIN d |-> d[i][1]]

KeySet(d) == {d[i][1] : i \in DOMAIN d}

\* k in d
Has(d, k) == k \in KeySet(d)

\* d[k]
Get(d, k) == d[CHOOSE i \in DOMAIN d : d[i][1] = k][2]

\* d[k] = v : replaces the value in place, or appends a new key.
Put(d, k, v) ==
    IF Has(d, k)
    THEN [i \in DOMAIN d |-> IF d[i][1] = k THEN <<k, v>> ELSE d[i]]
    ELSE Append(d, <<k, v>>)

\* d.update(e)
RECURSIVE Update(_, _)
Update(d, e) ==
    IF e = <<>> THEN d
    ELSE Update(Put(d, Head(e)[1], Head(e)[2]), Tail(e))

\* ------------------------------------------------------------- YAML on disk

\* The keys of a mapping in the order the YAML representer emits them.
RECURSIVE SortedKeys(_)
SortedKeys(S) ==
    IF S = {} THEN <<>>
    ELSE LET m == CHOOSE x \in S : \A y \in S : x <= y
         IN  <<m>> \o SortedKeys(S \ {m})

\* yaml.safe_dump / yaml.dump of a ledger: the "steps" mapping is emitted
\* with its keys sorted; the other top-level keys are scalars.
DumpSteps(d) ==
    LET ks == SortedKeys(KeySet(d))
    IN  [i \in DOMAIN ks |-> <<ks[i], Get(d, ks[i])>>]

Dump(data) ==
    IF "steps" \in DOMAIN data
    THEN [data EXCEPT !.steps = DumpSteps(data.steps)]
    ELSE data

\* yaml.safe_load: the mapping in file order, a later duplicate key winning.
LoadSteps(s) == Update(EmptyDict, s)

Load(text) ==
    IF "steps" \in DOMAIN text
    THEN [text EXCEPT !.steps = LoadSteps(text.steps)]
    ELSE text

\* A ledger file: absent, complete ("ok"), or opened for writing and not yet
\* dumped ("trunc": open(path, "w") has truncated it).  `before` remembers
\* the text the file held when it was opened for writing.
AbsentFile == [st |-> "absent", text |-> <<>>, before |-> <<>>]

\* open(path, "w")
OpenW(f) == [st |-> "trunc", text |-> <<>>, before |-> f.text]

\* yaml.dump(data, f) and close
Written(f, data) == [st |-> "ok", text |-> Dump(data), before |-> <<>>]

\* An artifact file (an image, a json or txt file of one step): not there,
\* opened for writing and not yet closed, or written and closed.
NoArtifacts == [p \in Paths |-> [n \in Steps |-> "absent"]]

\* ---------------------------------------------------------------- variables

VARIABLES
    file,              \* Paths -> ledger file
    lock,              \* Paths -> holder of <path>.lock, or NoHolder
    wpc,               \* Writers -> position within an AtomicYAMLWriter context
    wpath,             \* Writers -> filename of the current context
    wstep,             \* Writers -> step the current context adds
    wdata,             \* Writers -> self.data
    emitted,           \* Writers -> set of <<path, step>> contexts completed
    outputs,           \* Writers -> ledgers of the outputs the renderer has
    jobs,              \* the units of the job config, in thread order
    config,            \* Units -> config dict
    upc,               \* Units -> position within run()
    input_metadata,    \* Units -> self.input_metadata
    output_metadata,   \* Units -> self.output_metadata
    processed_steps,   \* Units -> self.processed_steps
    expected_steps,    \* Units -> self.expected_steps
    sensor_name,       \* Units -> self.sensor_name
    scan,              \* Units -> ledger files still to visit in os.walk
    cur,               \* Units -> path being read / step being processed
    calls,             \* Units -> history: process_step calls per step
    allCalls,          \* Units -> history: finished counts seen by process_all_steps
    torn,              \* history: a read or write met a file being written
    mpc,               \* position of main()
    started,           \* number of threads main() has started
    joined,            \* number of threads main() has joined
    restarts,          \* number of fresh starts of the postprocessing process
    artifact,          \* Paths -> Steps -> state of the step's artifact file
    bb_in,             \* the images and config a process_step call is given
    bb_out,            \* the lines process_step wrote to the step's output file
    bb_done,           \* whether that process_step call has returned
    hv_in,             \* two positions, and whether their digests coincide
    hv                 \* the renderer computing identities: position, results

fsVars == <<file, lock>>
writerVars == <<wpc, wpath, wstep, wdata, emitted>>
unitVars == <<upc, input_metadata, output_metadata, processed_steps,
              expected_steps, sensor_name, scan, cur, calls, allCalls>>
mainVars == <<mpc, started, joined>>
cfgVars == <<outputs, jobs, config>>
fnVars == <<bb_in, bb_out, bb_done, hv_in, hv>>
vars == <<fsVars, writerVars, cfgVars, unitVars, torn, mainVars, restarts, artifact,
          fnVars>>

\* ------------------------------------------------------------- the file lock

\* Mutant of FileLock.acquire: it returns whether or not the lock is held.
LockFreeAlways(p) == TRUE

\* FileLock.acquire() returns once nobody holds <path>.lock.
LockFree(p) == lock[p] = NoHolder

\* FileLock.acquire() raises Timeout only while another holder keeps the lock.
LockBusy(p, who) == lock[p] \notin {NoHolder, who}

\* ------------------------------------- the renderer: AtomicYAMLWriter contexts

\* meta_description["type"] of the output that owns ledger p.
SourceType(p) == IF p = "s1" THEN "SEMANTIC_SEGMENTATION" ELSE "INSTANCE_SEGMENTATION"

\* step_dicts of a context: one descriptor, its file named after the frame.
StepDicts(p, n) == <<[type |-> SourceType(p), path |-> n]>>

\* Mutant of add_step: self.data["steps"] = {step: step_dicts}.
AddStepFresh(data, step, step_dicts) ==
    [steps |-> Put(EmptyDict, step, step_dicts)] @@ data

\* AtomicYAMLWriter.add_step: self.data.setdefault("steps", {})[step] = step_dicts
AddStep(data, step, step_dicts) ==
    IF "steps" \in DOMAIN data
    THEN [data EXCEPT !.steps = Put(@, step, step_dicts)]
    ELSE [steps |-> Put(EmptyDict, step, step_dicts)] @@ data

\* The body of a `with AtomicYAMLWriter(...) as writer:` block of an output.
ContextBody(data, p, n) ==
    [expected_steps |-> JobSteps, sensor |-> "cam", id |-> p]
        @@ AddStep([type |-> SourceType(p)] @@ data, n, StepDicts(p, n))

\* generate_output: the output of a frame opens its artifact file for writing
\* (open(json_file, "w"), the render's file output).
W_ArtifactOpen(w) ==
    \E p \in outputs[w], n \in Steps :
        /\ wpc[w] = "idle"
        /\ <<p, n>> \notin emitted[w]
        /\ artifact' = [artifact EXCEPT ![p][n] = "open"]
        /\ wpc' = [wpc EXCEPT ![w] = "rendering"]
        /\ wpath' = [wpath EXCEPT ![w] = p]
        /\ wstep' = [wstep EXCEPT ![w] = n]
        /\ UNCHANGED <<fsVars, wdata, emitted, cfgVars, unitVars, torn, mainVars,
                       restarts, fnVars>>

\* generate_output: the artifact file is written and closed; next comes
\* write_meta_output_file.
W_ArtifactClose(w) ==
    /\ wpc[w] = "rendering"
    /\ artifact' = [artifact EXCEPT ![wpath[w]][wstep[w]] = "closed"]
    /\ wpc' = [wpc EXCEPT ![w] = "rendered"]
    /\ UNCHANGED <<fsVars, wpath, wstep, wdata, emitted, cfgVars, unitVars, torn,
                   mainVars, restarts, fnVars>>

\* __enter__: acquire the lock, then read the file (or start from {}).
W_Enter(w) ==
    LET p == wpath[w]
    IN  /\ wpc[w] = "rendered"
        /\ LockFree(p)
        /\ lock' = [lock EXCEPT ![p] = w]
        /\ wpc' = [wpc EXCEPT ![w] = "entered"]
        /\ wdata' = [wdata EXCEPT ![w] =
                IF file[p].st = "absent" THEN <<>> ELSE Load(file[p].text)]
        /\ torn' = (torn \/ file[p].st = "trunc")
        /\ UNCHANGED <<file, wpath, wstep, emitted, cfgVars, unitVars, mainVars,
                       restarts, artifact, fnVars>>

\* __enter__ when the lock cannot be had: TimeoutError, the body never runs.
W_EnterTimeout(w) ==
    /\ wpc[w] = "rendered"
    /\ LockBusy(wpath[w], w)
    /\ wpc' = [wpc EXCEPT ![w] = "failed"]
    /\ UNCHANGED <<fsVars, wpath, wstep, wdata, emitted, cfgVars, unitVars, torn,
                   mainVars, restarts, artifact, fnVars>>

\* The with-block: fills writer.data in memory.
W_Body(w) ==
    /\ wpc[w] = "entered"
    /\ wdata' = [wdata EXCEPT ![w] = ContextBody(@, wpath[w], wstep[w])]
    /\ wpc' = [wpc EXCEPT ![w] = "body"]
    /\ UNCHANGED <<fsVars, wpath, wstep, emitted, cfgVars, unitVars, torn,
                   mainVars, restarts, artifact, fnVars>>

\* __exit__: open(self.filename, "w") truncates the file.
W_ExitOpen(w) ==
    /\ wpc[w] = "body"
    /\ file' = [file EXCEPT ![wpath[w]] = OpenW(@)]
    /\ torn' = (torn \/ file[wpath[w]].st = "trunc")
    /\ wpc' = [wpc EXCEPT ![w] = "opened"]
    /\ UNCHANGED <<lock, wpath, wstep, wdata, emitted, cfgVars, unitVars,
                   mainVars, restarts, artifact, fnVars>>

\* __exit__: yaml.safe_dump(self.data, yaml_file) and close.
W_ExitDump(w) ==
    /\ wpc[w] = "opened"
    /\ file' = [file EXCEPT ![wpath[w]] = Written(@, wdata[w])]
    /\ wpc' = [wpc EXCEPT ![w] = "dumped"]
    /\ UNCHANGED <<lock, wpath, wstep, wdata, emitted, cfgVars, unitVars, torn,
                   mainVars, restarts, artifact, fnVars>>

\* __exit__: self.lock.release()
W_ExitRelease(w) ==
    /\ wpc[w] = "dumped"
    /\ lock' = [lock EXCEPT ![wpath[w]] = NoHolder]
    /\ emitted' = [emitted EXCEPT ![w] = @ \cup {<<wpath[w], wstep[w]>>}]
    /\ wpc' = [wpc EXCEPT ![w] = "idle"]
    /\ wdata' = [wdata EXCEPT ![w] = <<>>]
    /\ wpath' = [wpath EXCEPT ![w] = NoPath]
    /\ wstep' = [wstep EXCEPT ![w] = -1]
    /\ UNCHANGED <<file, cfgVars, unitVars, torn, mainVars,
                   restarts, artifact, fnVars>>

\* ---------------------------------------------------- a postprocessing unit

\* Mutant of _safe_write: the unit writes the ledger of its first source.
UnitPathOfSource(u) == config[u].sources[1]

\* <output_folder>/<id>_metadata.yaml of _safe_write.
UnitPath(u) == config[u].id

SeqToSet(q) == {q[i] : i \in DOMAIN q}

\* Mutant of _source_ids_found: any([...]) for all([...]).
SourceIdsAnyFound(u) ==
    \E i \in DOMAIN config[u].sources :
        Has(input_metadata[u], config[u].sources[i])

\* Mutant of _source_ids_found: only the first id of `sources` is looked for.
SourceIdsFirstFound(u) == Has(input_metadata[u], config[u].sources[1])

\* _source_ids_found
SourceIdsFound(u) ==
    \A i \in DOMAIN config[u].sources :
        Has(input_metadata[u], config[u].sources[i])

\* Whether _calc_expected_steps returns (it raises IndexError or KeyError when
\* the config has no expected_steps and the first source gives none).
CanCalcExpectedSteps(u) ==
    \/ "expected_steps" \in DOMAIN config[u]
    \/ /\ input_metadata[u] # <<>>
       /\ "expected_steps" \in DOMAIN input_metadata[u][1][2].metadata

\* _calc_expected_steps
CalcExpectedSteps(u) ==
    IF "expected_steps" \in DOMAIN config[u]
    THEN config[u].expected_steps
    ELSE input_metadata[u][1][2].metadata.expected_steps

\* The count _finished_all_steps compares with self.expected_steps.
FinishedCount(ps) == Cardinality({i \in DOMAIN ps : ps[i][2].finished})

\* Mutant of _finished_all_steps: the loop waits for one finished step more
\* than expected.
FinishedOneMore(ps, expected) == FinishedCount(ps) = expected + 1

\* Mutant of _finished_all_steps: counts the step records, finished or not.
FinishedAnyRecord(ps, expected) == Len(ps) = expected

\* Mutant of _finished_all_steps: the loop ends when every step record there
\* is has been finished.
FinishedAllRecords(ps, expected) == FinishedCount(ps) = Len(ps)

\* _finished_all_steps
FinishedAllSteps(ps, expected) == FinishedCount(ps) = expected

\* _get_unprocessed_step: the first record, in insertion order, that is not
\* finished; -1 stands for (None, None).
GetUnprocessedStep(ps) ==
    IF \E i \in DOMAIN ps : ~ps[i][2].finished
    THEN ps[CHOOSE i \in DOMAIN ps :
                /\ ~ps[i][2].finished
                /\ \A j \in DOMAIN ps : ~ps[j][2].finished => i <= j][1]
    ELSE -1

\* Mutant of _intersection_of_available_steps: any([...]) for all([...]).
IntersectionAny(im) ==
    LET all_steps == [i \in DOMAIN im |-> Keys(im[i][2].metadata.steps)]
    IN  SelectSeq(all_steps[1],
            LAMBDA s : \E i \in DOMAIN all_steps : s \in SeqToSet(all_steps[i]))

\* _intersection_of_available_steps: the steps of the first source, in its
\* order, that every source lists.
IntersectionOfAvailableSteps(im) ==
    LET all_steps == [i \in DOMAIN im |-> Keys(im[i][2].metadata.steps)]
    IN  SelectSeq(all_steps[1],
            LAMBDA s : \A i \in DOMAIN all_steps : s \in SeqToSet(all_steps[i]))

\* Mutant of _get_dict_of_available_steps: steps that already have a record
\* are not filtered out.
StepsUnfiltered(available_steps, ps) == available_steps

\* Mutant of _get_dict_of_available_steps: a step the unit's ledger on disk
\* already lists gets no record (skip-if-present).
StepsSkipStored(available_steps, ps) ==
    SelectSeq(available_steps,
        LAMBDA s : /\ ~Has(ps, s)
                   /\ \A u \in Units :
                         "steps" \in DOMAIN file[UnitPath(u)].text =>
                             ~Has(file[UnitPath(u)].text.steps, s))

\* The steps _get_dict_of_available_steps keeps: those without a record yet.
StepsFiltered(available_steps, ps) ==
    SelectSeq(available_steps, LAMBDA s : ~Has(ps, s))

\* _get_dict_of_available_steps
GetDictOfAvailableSteps(available_steps, ps, im) ==
    LET steps_filtered == StepsFiltered(available_steps, ps)
    IN  [i \in DOMAIN steps_filtered |->
            <<steps_filtered[i],
              [sources |->
                  [j \in DOMAIN im |->
                      <<im[j][1], Get(im[j][2].metadata.steps, steps_filtered[i])>>],
               finished |-> FALSE]>>]

\* Whether _get_dict_of_available_steps returns: metadata["steps"][step]
\* raises KeyError for a step a source does not list.
CanGetDictOfAvailableSteps(available_steps, ps, im) ==
    LET steps_filtered == StepsFiltered(available_steps, ps)
    IN  \A i \in DOMAIN steps_filtered : \A j \in DOMAIN im :
            Has(im[j][2].metadata.steps, steps_filtered[i])

\* The in-memory rest of _update_metadata, after the sources were re-read.
UpdatedProcessedSteps(ps, im) ==
    Update(ps, GetDictOfAvailableSteps(IntersectionOfAvailableSteps(im), ps, im))

\* _update_processed_step_dict
UpdateProcessedStepDict(ps, step_id) ==
    Put(ps, step_id, [Get(ps, step_id) EXCEPT !.finished = TRUE])

\* process_step of the unit's transform: {step_num: [{type, path}]}.
ProcessStep(u, step_num) ==
    <<<<step_num, <<[type |-> "BOUNDING_BOX", path |-> step_num]>>>>>>

\* process_all_steps of the unit's transform (bounding boxes: `pass`).
ProcessAllSteps(u) == EmptyDict

\* Mutant of _update_output_metadata: the steps mapping is replaced by the
\* new result instead of being updated with it.
UpdateOutputMetadataReplace(om, u, processed_dict) ==
    IF processed_dict # EmptyDict
    THEN [steps |-> processed_dict]
            @@ [type |-> "BOUNDING_BOX", sensor |-> sensor_name[u],
                id |-> config[u].id, expected_steps |-> expected_steps[u]]
    ELSE om

\* _update_output_metadata
UpdateOutputMetadata(om, u, processed_dict) ==
    IF processed_dict # EmptyDict
    THEN LET d == [type |-> "BOUNDING_BOX", sensor |-> sensor_name[u],
                   id |-> config[u].id,
                   expected_steps |-> expected_steps[u]] @@ om
         IN  IF "steps" \in DOMAIN d
             THEN [d EXCEPT !.steps = Update(@, processed_dict)]
             ELSE [steps |-> Update(EmptyDict, processed_dict)] @@ d
    ELSE om

NoCur == [path |-> "", idx |-> 0, step |-> -1, after |-> ""]

\* The exception leaves run(): the thread ends.
Fail(u) == upc' = [upc EXCEPT ![u] = "failed"]

\* The ledger whose lock the unit's pending _safe_read or _safe_write wants.
Wanted(u) ==
    CASE upc[u] = "scan" -> scan[u]
      [] upc[u] = "poll" -> {input_metadata[u][cur[u].idx][2].path}
      [] upc[u] = "write" -> {UnitPath(u)}
      [] OTHER -> {}

\* run(): the test of `while not self._source_ids_found()`.  When it fails the
\* loop body starts _find_metadata_yaml (os.walk lists the ledger files that
\* exist); when it holds, _setup and _prepare run.
U_Await(u) ==
    /\ upc[u] = "await"
    /\ IF SourceIdsFound(u)
       THEN /\ IF CanCalcExpectedSteps(u)
               THEN /\ expected_steps' = [expected_steps EXCEPT ![u] = CalcExpectedSteps(u)]
                    /\ upc' = [upc EXCEPT ![u] = "loop"]
               ELSE /\ Fail(u)
                    /\ UNCHANGED expected_steps
            /\ UNCHANGED scan
       ELSE /\ scan' = [scan EXCEPT ![u] = {p \in Paths : file[p].st # "absent"}]
            /\ upc' = [upc EXCEPT ![u] = IF scan'[u] = {} THEN "await" ELSE "scan"]
            /\ UNCHANGED expected_steps
    /\ UNCHANGED <<fsVars, writerVars, cfgVars, input_metadata, output_metadata,
                   processed_steps, sensor_name, cur, calls, allCalls,
                   torn, mainVars, restarts, artifact, fnVars>>

\* _safe_read / _safe_write: lock.acquire() returns.
U_Acquire(u) ==
    \E p \in Wanted(u) :
        /\ LockFree(p)
        /\ lock' = [lock EXCEPT ![p] = u]
        /\ cur' = [cur EXCEPT ![u].path = p]
        /\ upc' = [upc EXCEPT ![u] =
                CASE upc[u] = "scan" -> "scan_locked"
                  [] upc[u] = "poll" -> "poll_locked"
                  [] upc[u] = "write" -> "w_locked"]
        /\ UNCHANGED <<file, writerVars, cfgVars, input_metadata, output_metadata,
                       processed_steps, expected_steps, sensor_name, scan,
                       calls, allCalls, torn, mainVars, restarts, artifact, fnVars>>

\* Mutant of the Timeout path of _safe_read / _safe_write: the ledger is
\* opened for writing although the lock was not acquired.
U_TimeoutOpens(u) ==
    \E p \in Wanted(u) :
        /\ LockBusy(p, u)
        /\ Fail(u)
        /\ file' = [file EXCEPT ![p] = OpenW(@)]
        /\ UNCHANGED <<lock, writerVars, cfgVars, input_metadata, output_metadata,
                       processed_steps, expected_steps, sensor_name, scan, cur,
                       calls, allCalls, torn, mainVars, restarts, artifact, fnVars>>

\* Mutant of the Timeout path of _safe_read / _safe_write: the error is
\* swallowed and the loop of run() goes on to another iteration.
U_TimeoutRetries(u) ==
    \E p \in Wanted(u) :
        /\ LockBusy(p, u)
        /\ upc' = [upc EXCEPT ![u] = IF upc[u] = "scan" THEN "await" ELSE "loop"]
        /\ cur' = [cur EXCEPT ![u] = NoCur]
        /\ UNCHANGED <<fsVars, writerVars, cfgVars, input_metadata, output_metadata,
                       processed_steps, expected_steps, sensor_name, scan,
                       calls, allCalls, torn, mainVars, restarts, artifact, fnVars>>

\* _safe_read / _safe_write: lock.acquire() raises Timeout, which is turned
\* into TimeoutError; the ledger was not opened.
U_Timeout(u) ==
    \E p \in Wanted(u) :
        /\ LockBusy(p, u)
        /\ Fail(u)
        /\ UNCHANGED <<fsVars, writerVars, cfgVars, input_metadata, output_metadata,
                       processed_steps, expected_steps, sensor_name, scan, cur,
                       calls, allCalls, torn, mainVars, restarts, artifact, fnVars>>

\* _safe_read reads and releases; _find_metadata_yaml keeps the ledger when
\* its id is a source (metadata["id"] raises on a ledger without id), and
\* _set_sensor_name takes the sensor of the first source kept.
U_ScanRead(u) ==
    LET p == cur[u].path
        metadata == Load(file[p].text)
        im == Put(input_metadata[u], metadata.id, [metadata |-> metadata, path |-> p])
        left == scan[u] \ {p}
    IN  /\ upc[u] = "scan_locked"
        /\ lock' = [lock EXCEPT ![p] = NoHolder]
        /\ torn' = (torn \/ file[p].st = "trunc")
        /\ scan' = [scan EXCEPT ![u] = left]
        /\ cur' = [cur EXCEPT ![u].path = NoPath]
        /\ IF "id" \notin DOMAIN metadata
           THEN /\ Fail(u)
                /\ UNCHANGED <<input_metadata, sensor_name>>
           ELSE IF metadata.id \in SeqToSet(config[u].sources)
           THEN IF sensor_name[u] = "" /\ "sensor" \notin DOMAIN im[1][2].metadata
                THEN /\ Fail(u)
                     /\ input_metadata' = [input_metadata EXCEPT ![u] = im]
                     /\ UNCHANGED sensor_name
                ELSE /\ input_metadata' = [input_metadata EXCEPT ![u] = im]
                     /\ sensor_name' = [sensor_name EXCEPT ![u] =
                            IF @ = "" THEN im[1][2].metadata.sensor ELSE @]
                     /\ upc' = [upc EXCEPT ![u] = IF left = {} THEN "await" ELSE "scan"]
           ELSE /\ upc' = [upc EXCEPT ![u] = IF left = {} THEN "await" ELSE "scan"]
                /\ UNCHANGED <<input_metadata, sensor_name>>
        /\ UNCHANGED <<file, writerVars, cfgVars, output_metadata, processed_steps,
                       expected_steps, calls, allCalls, mainVars, restarts, artifact, fnVars>>

\* run(): the test of `while not self._finished_all_steps()`; the loop body
\* starts _update_metadata, which re-reads the sources in dict order.
U_Loop(u) ==
    /\ upc[u] = "loop"
    /\ IF FinishedAllSteps(processed_steps[u], expected_steps[u])
       THEN /\ upc' = [upc EXCEPT ![u] = "final"]
            /\ UNCHANGED cur
       ELSE IF input_metadata[u] = <<>>
       THEN /\ Fail(u)
            /\ UNCHANGED cur
       ELSE /\ upc' = [upc EXCEPT ![u] = "poll"]
            /\ cur' = [cur EXCEPT ![u].idx = 1]
    /\ UNCHANGED <<fsVars, writerVars, cfgVars, input_metadata, output_metadata,
                   processed_steps, expected_steps, sensor_name, scan, calls,
                   allCalls, torn, mainVars, restarts, artifact, fnVars>>

\* _safe_read reads and releases.  After the last source, _update_metadata
\* creates the new step records and run() asks _get_unprocessed_step; with
\* none to process it sleeps and tests the loop again.
U_PollRead(u) ==
    LET p == cur[u].path
        i == cur[u].idx
        metadata == Load(file[p].text)
        im == [input_metadata[u] EXCEPT ![i][2].metadata = metadata]
        ps == UpdatedProcessedSteps(processed_steps[u], im)
        step_num == GetUnprocessedStep(ps)
    IN  /\ upc[u] = "poll_locked"
        /\ lock' = [lock EXCEPT ![p] = NoHolder]
        /\ torn' = (torn \/ file[p].st = "trunc")
        /\ input_metadata' = [input_metadata EXCEPT ![u] = im]
        /\ IF i < Len(im)
           THEN /\ cur' = [cur EXCEPT ![u] = [NoCur EXCEPT !.idx = i + 1]]
                /\ upc' = [upc EXCEPT ![u] = "poll"]
                /\ UNCHANGED processed_steps
           ELSE IF \/ \E j \in DOMAIN im : "steps" \notin DOMAIN im[j][2].metadata
                   \/ ~CanGetDictOfAvailableSteps(
                          IntersectionOfAvailableSteps(im), processed_steps[u], im)
           THEN /\ Fail(u)
                /\ cur' = [cur EXCEPT ![u] = NoCur]
                /\ UNCHANGED processed_steps
           ELSE /\ processed_steps' = [processed_steps EXCEPT ![u] = ps]
                /\ cur' = [cur EXCEPT ![u] = [NoCur EXCEPT !.step = step_num]]
                /\ upc' = [upc EXCEPT ![u] = IF step_num # -1 THEN "process" ELSE "loop"]
        /\ UNCHANGED <<file, writerVars, cfgVars, output_metadata, expected_steps,
                       sensor_name, scan, calls, allCalls, mainVars, restarts, artifact, fnVars>>

\* process_step(step_num, step_dict) is called and opens the step's output
\* file for writing.
U_ProcessOpen(u) ==
    /\ upc[u] = "process"
    /\ artifact' = [artifact EXCEPT ![UnitPath(u)][cur[u].step] = "open"]
    /\ upc' = [upc EXCEPT ![u] = "p_opened"]
    /\ UNCHANGED <<fsVars, writerVars, cfgVars, input_metadata, output_metadata,
                   processed_steps, expected_steps, sensor_name, scan, cur, calls,
                   allCalls, torn, mainVars, restarts, fnVars>>

\* Mutant of process_step: it returns without closing the output file.
U_ProcessLeavesOpen(u) ==
    /\ upc[u] = "p_opened"
    /\ calls' = [calls EXCEPT ![u][cur[u].step] = @ + 1]
    /\ output_metadata' = [output_metadata EXCEPT ![u] =
            UpdateOutputMetadata(@, u, ProcessStep(u, cur[u].step))]
    /\ cur' = [cur EXCEPT ![u].after = "mark"]
    /\ upc' = [upc EXCEPT ![u] = "write"]
    /\ UNCHANGED <<fsVars, writerVars, cfgVars, input_metadata, processed_steps,
                   expected_steps, sensor_name, scan, allCalls, torn,
                   mainVars, restarts, artifact, fnVars>>

\* Mutant of run(): _update_processed_step_dict is called right after
\* process_step, before _write_output_metadata.
U_ProcessMarks(u) ==
    /\ upc[u] = "p_opened"
    /\ artifact' = [artifact EXCEPT ![UnitPath(u)][cur[u].step] = "closed"]
    /\ calls' = [calls EXCEPT ![u][cur[u].step] = @ + 1]
    /\ output_metadata' = [output_metadata EXCEPT ![u] =
            UpdateOutputMetadata(@, u, ProcessStep(u, cur[u].step))]
    /\ processed_steps' = [processed_steps EXCEPT ![u] =
            UpdateProcessedStepDict(@, cur[u].step)]
    /\ cur' = [cur EXCEPT ![u].after = "mark"]
    /\ upc' = [upc EXCEPT ![u] = "write"]
    /\ UNCHANGED <<fsVars, writerVars, cfgVars, input_metadata,
                   expected_steps, sensor_name, scan, allCalls, torn,
                   mainVars, restarts, fnVars>>

\* process_step writes and closes the output file and returns; then
\* _update_output_metadata.
U_Process(u) ==
    /\ upc[u] = "p_opened"
    /\ artifact' = [artifact EXCEPT ![UnitPath(u)][cur[u].step] = "closed"]
    /\ calls' = [calls EXCEPT ![u][cur[u].step] = @ + 1]
    /\ output_metadata' = [output_metadata EXCEPT ![u] =
            UpdateOutputMetadata(@, u, ProcessStep(u, cur[u].step))]
    /\ cur' = [cur EXCEPT ![u].after = "mark"]
    /\ upc' = [upc EXCEPT ![u] = "write"]
    /\ UNCHANGED <<fsVars, writerVars, cfgVars, input_metadata, processed_steps,
                   expected_steps, sensor_name, scan, allCalls, torn,
                   mainVars, restarts, fnVars>>

\* process_all_steps(), then _update_output_metadata.
U_Final(u) ==
    /\ upc[u] = "final"
    /\ allCalls' = [allCalls EXCEPT ![u] =
            Append(@, FinishedCount(processed_steps[u]))]
    /\ output_metadata' = [output_metadata EXCEPT ![u] =
            UpdateOutputMetadata(@, u, ProcessAllSteps(u))]
    /\ cur' = [cur EXCEPT ![u].after = "done"]
    /\ upc' = [upc EXCEPT ![u] = "write"]
    /\ UNCHANGED <<fsVars, writerVars, cfgVars, input_metadata, processed_steps,
                   expected_steps, sensor_name, scan, calls, torn,
                   mainVars, restarts, artifact, fnVars>>

\* _safe_write: open(metadata_file_path, "w") truncates the ledger.
U_WriteOpen(u) ==
    /\ upc[u] = "w_locked"
    /\ file' = [file EXCEPT ![UnitPath(u)] = OpenW(@)]
    /\ torn' = (torn \/ file[UnitPath(u)].st = "trunc")
    /\ upc' = [upc EXCEPT ![u] = "w_opened"]
    /\ UNCHANGED <<lock, writerVars, cfgVars, input_metadata, output_metadata,
                   processed_steps, expected_steps, sensor_name, scan, cur,
                   calls, allCalls, mainVars, restarts, artifact, fnVars>>

\* _safe_write: yaml.dump, close, release.  After a step run() then calls
\* _update_processed_step_dict; after process_all_steps it returns.
U_WriteDump(u) ==
    /\ upc[u] = "w_opened"
    /\ file' = [file EXCEPT ![UnitPath(u)] = Written(@, output_metadata[u])]
    /\ lock' = [lock EXCEPT ![UnitPath(u)] = NoHolder]
    /\ cur' = [cur EXCEPT ![u] = NoCur]
    /\ IF cur[u].after = "mark"
       THEN /\ processed_steps' = [processed_steps EXCEPT ![u] =
                    UpdateProcessedStepDict(@, cur[u].step)]
            /\ upc' = [upc EXCEPT ![u] = "loop"]
       ELSE /\ upc' = [upc EXCEPT ![u] = "done"]
            /\ UNCHANGED processed_steps
    /\ UNCHANGED <<writerVars, cfgVars, input_metadata, output_metadata,
                   expected_steps, sensor_name, scan, calls, allCalls,
                   torn, mainVars, restarts, artifact, fnVars>>

\* ------------------------------------------------------------ the job runner

\* main(): `for job in jobs: job.start()`.
M_Start ==
    /\ mpc = "starting"
    /\ started < Len(jobs)
    /\ started' = started + 1
    /\ upc' = [upc EXCEPT ![jobs[started + 1]] = "await"]
    /\ mpc' = IF started + 1 = Len(jobs) THEN "joining" ELSE "starting"
    /\ UNCHANGED <<fsVars, writerVars, cfgVars, input_metadata, output_metadata,
                   processed_steps, expected_steps, sensor_name, scan, cur,
                   calls, allCalls, torn, joined, restarts, artifact, fnVars>>

\* main(): `for job in jobs: job.join()`; join returns when the thread has
\* ended, whether run() returned or raised.  After the last join main returns.
M_Join ==
    /\ mpc = "joining"
    /\ joined < Len(jobs)
    /\ upc[jobs[joined + 1]] \in {"done", "failed"}
    /\ joined' = joined + 1
    /\ mpc' = IF joined + 1 = Len(jobs) THEN "returned" ELSE "joining"
    /\ UNCHANGED <<fsVars, writerVars, cfgVars, unitVars, torn, started, restarts, artifact, fnVars>>

\* ------------------------------------------- the bounding-box transform

\* Images are numpy arrays of shape (H, W): functions of <<row, column>>.
Pixels(img) == (0..(img.H - 1)) \X (0..(img.W - 1))

\* f"{v:.6f}" of the quotient num/den, as the integer count of millionths
\* printed (no quotient of the sizes modelled lies on a rounding tie).
Fmt6(num, den) == (2 * num * 1000000 + den) \div (2 * den)

\* _convert_to_output_format: x_center = (x + w / 2) / img_width, and so on;
\* the line is "<class> <x_center> <y_center> <w> <h>".
ConvertToOutputFormat(x, y, w, h, img, class_id) ==
    [class_id |-> class_id,
     x_center |-> Fmt6(2 * x + w, 2 * img.W),
     y_center |-> Fmt6(2 * y + h, 2 * img.H),
     w |-> Fmt6(w, img.W),
     h |-> Fmt6(h, img.H)]

MinOf(S) == CHOOSE x \in S : \A y \in S : x <= y
MaxOf(S) == CHOOSE x \in S : \A y \in S : x >= y

\* write_bb: the lines it writes for the pixels instance_idx (np.min of an
\* empty index raises ValueError, which is passed over: no line).
WriteBB(img, class_id, instance_idx) ==
    IF instance_idx = {} THEN <<>>
    ELSE LET x == MinOf({px[2] : px \in instance_idx})
             y == MinOf({px[1] : px \in instance_idx})
             w == MaxOf({px[2] : px \in instance_idx}) - x
             h == MaxOf({px[1] : px \in instance_idx}) - y
         IN  <<ConvertToOutputFormat(x, y, w, h, img, class_id)>>

\* Mutant of the classes_to_skip mask: no pixel is masked.
MaskedNone(img, classes_to_skip) == {}

\* mask != 0: the pixels whose semantic class is in classes_to_skip.
Masked(img, classes_to_skip) == {px \in Pixels(img) : img.sem[px] \in classes_to_skip}

\* np.unique(instance_image[mask == 0]), ascending.
UniqueInstanceIds(img, classes_to_skip) ==
    SortedKeys({img.inst[px] : px \in Pixels(img) \ Masked(img, classes_to_skip)})

\* The pixels instance_image == instance_id.
InstancePixels(img, instance_id) == {px \in Pixels(img) : img.inst[px] = instance_id}

\* count of class c among the pixels of the instance.
ClassCount(img, instance_id, c) ==
    Cardinality({px \in InstancePixels(img, instance_id) : img.sem[px] = c})

\* class_ids after both filters: count > num_pixels * 0.01 and count > 5.
ClassIds(img, instance_id) ==
    LET num_pixels == Cardinality(InstancePixels(img, instance_id))
    IN  {c \in {img.sem[px] : px \in InstancePixels(img, instance_id)} :
            /\ 100 * ClassCount(img, instance_id, c) > num_pixels
            /\ ClassCount(img, instance_id, c) > 5}

\* The lines of one pass of the loop over the unique instance ids.
RECURSIVE ClassLines(_, _, _, _)
ClassLines(img, instance_id, class_seq, classes_to_skip) ==
    IF class_seq = <<>> THEN <<>>
    ELSE LET class_id == Head(class_seq)
             instance_idx == {px \in InstancePixels(img, instance_id) :
                                 img.sem[px] = class_id}
         IN  (IF class_id \in classes_to_skip THEN <<>>
              ELSE WriteBB(img, class_id, instance_idx))
             \o ClassLines(img, instance_id, Tail(class_seq), classes_to_skip)

InstanceLines(img, instance_id, classes_to_skip, multiple_bb_per_instance) ==
    LET class_ids == ClassIds(img, instance_id)
    IN  IF multiple_bb_per_instance
        THEN ClassLines(img, instance_id, SortedKeys(class_ids), classes_to_skip)
        ELSE IF class_ids = {} THEN <<>>
        ELSE WriteBB(img, MinOf(class_ids),
                     {px \in InstancePixels(img, instance_id) :
                         img.sem[px] \in class_ids})

\* BoundingBoxes.process_step: the lines of the step's output file.
RECURSIVE ProcessStepLines(_, _, _, _)
ProcessStepLines(img, id_seq, classes_to_skip, multiple_bb_per_instance) ==
    IF id_seq = <<>> THEN <<>>
    ELSE InstanceLines(img, Head(id_seq), classes_to_skip, multiple_bb_per_instance)
         \o ProcessStepLines(img, Tail(id_seq), classes_to_skip,
                             multiple_bb_per_instance)

\* process_step runs on the loaded images and closes the output file.
BB_ProcessStep ==
    /\ ~bb_done
    /\ bb_out' = ProcessStepLines(bb_in.img,
                     UniqueInstanceIds(bb_in.img, bb_in.classes_to_skip),
                     bb_in.classes_to_skip, bb_in.multiple_bb_per_instance)
    /\ bb_done' = TRUE
    /\ UNCHANGED <<bb_in, hv_in, hv, fsVars, writerVars, cfgVars, unitVars, torn,
                   mainVars, restarts, artifact>>

\* ------------------------------------------------- instance identities

\* A float that holds an integer: its sign bit and its magnitude (np.round
\* gives -0.0 for a negative number that rounds to zero).
FloatOf(neg, mag) == [neg |-> neg, mag |-> mag]

\* The number a float stands for; -0.0 and 0.0 are the same number.
NumberOf(f) == IF f.neg THEN 0 - f.mag ELSE f.mag

\* The quotient num / den rounded to the nearest integer, ties to the even one.
RoundHalfEven(num, den) ==
    LET q == num \div den
        r == num % den
    IN  IF 2 * r < den THEN q
        ELSE IF 2 * r > den THEN q + 1
        ELSE IF q % 2 = 0 THEN q ELSE q + 1

\* np.round(x * 1000) of a coordinate x, given in tenths of a millimeter.
RoundToMm(tenths) ==
    IF tenths < 0 THEN FloatOf(TRUE, RoundHalfEven(0 - tenths, 10))
    ELSE FloatOf(FALSE, RoundHalfEven(tenths, 10))

\* Integers up to this one are all float32 values; above it they are not.
F32Exact == 16777216

\* The spacing of the float32 values around the magnitude m.
RECURSIVE F32Spacing(_)
F32Spacing(m) == IF m < F32Exact THEN 1 ELSE 2 * F32Spacing(m \div 2)

\* struct.pack('f', x): the four bytes are the float32 nearest to x, with the
\* sign bit of x.
PackF(f) ==
    FloatOf(f.neg, F32Spacing(f.mag) * RoundHalfEven(f.mag, F32Spacing(f.mag)))

\* struct.pack('fff', *vector)
Pack(vector) == [i \in DOMAIN vector |-> PackF(vector[i])]

\* hashlib.sha256(packed).digest()[:8] as a signed integer.  SHA-256 is a
\* fixed function of the bytes and of nothing else; its values are not
\* computed here: a digest is named by the bytes hashed, and hv_in.collide
\* says whether the digests of the two positions at hand coincide.
Sha256Trunc(packed) ==
    IF hv_in.collide /\ packed = Pack([i \in 1..3 |-> RoundToMm(hv_in.p2[i])])
    THEN [digest_of |-> Pack([i \in 1..3 |-> RoundToMm(hv_in.p1[i])])]
    ELSE [digest_of |-> packed]

\* Python's built-in hash() of the packed bytes, which is salted per process.
HashVectorSalted(vector) == [digest_of |-> Pack(vector), seed |-> hv.seed]

\* hash_vector
HashVector(vector) == Sha256Trunc(Pack(vector))

\* _calculate_instance_id: np.round(np.array(location) * 1000), then hash_vector.
CalculateInstanceId(location) ==
    HashVector([i \in DOMAIN location |-> RoundToMm(location[i])])

\* Whether two rows of img_mm are equal as np.unique compares them.
SameRow(a, b) == \A i \in DOMAIN a : NumberOf(a[i]) = NumberOf(b[i])

\* The renderer computes the instance id of the two positions.
HV_CalculateInstanceId ==
    /\ hv.pc = "start"
    /\ hv' = [hv EXCEPT !.pc = "ids",
                        !.id1 = CalculateInstanceId(hv_in.p1),
                        !.id2 = CalculateInstanceId(hv_in.p2)]
    /\ UNCHANGED <<hv_in, bb_in, bb_out, bb_done, fsVars, writerVars, cfgVars,
                   unitVars, torn, mainVars, restarts, artifact>>

\* postprocess_functions on an instance_segmentation image whose two pixels
\* hold the two positions: np.unique over the rounded rows (either of two
\* equal rows may stand for both), one hash per unique row, and the warning
\* when values.shape[0] != instance_id.shape[0].
PA_Postprocess ==
    LET row1 == [i \in 1..3 |-> RoundToMm(hv_in.p1[i])]
        row2 == [i \in 1..3 |-> RoundToMm(hv_in.p2[i])]
    IN  /\ hv.pc = "ids"
        /\ \E values \in IF SameRow(row1, row2) THEN {<<row1>>, <<row2>>}
                         ELSE {<<row1, row2>>} :
              LET instance_id == [k \in DOMAIN values |-> HashVector(values[k])]
                  index == IF Len(values) = 1 THEN <<1, 1>> ELSE <<1, 2>>
              IN  hv' = [hv EXCEPT !.pc = "image",
                                   !.values = values,
                                   !.img = [k \in 1..2 |-> instance_id[index[k]]],
                                   !.warned = (Len(values) # Len(instance_id))]
        /\ UNCHANGED <<hv_in, bb_in, bb_out, bb_done, fsVars, writerVars, cfgVars,
                       unitVars, torn, mainVars, restarts, artifact>>

\* The renderer is run again: a new process, with another hash seed.
HV_NewProcess ==
    /\ hv.pc = "image"
    /\ \E s \in HashSeeds \ {hv.seed} : hv' = [hv EXCEPT !.pc = "rerun", !.seed = s]
    /\ UNCHANGED <<hv_in, bb_in, bb_out, bb_done, fsVars, writerVars, cfgVars,
                   unitVars, torn, mainVars, restarts, artifact>>

\* The new process computes the instance id of the first position.
HV_CalculateAgain ==
    /\ hv.pc = "rerun"
    /\ hv' = [hv EXCEPT !.pc = "done", !.again = CalculateInstanceId(hv_in.p1)]
    /\ UNCHANGED <<hv_in, bb_in, bb_out, bb_done, fsVars, writerVars, cfgVars,
                   unitVars, torn, mainVars, restarts, artifact>>

\* The places that derive an instance identity from a position.
CallSites == {"object_positions", "keypoints", "object_occlusion",
              "instance_segmentation"}

\* The rounding a call site applies to a coordinate before the millimeter
\* quantization; coordinates are in tenths of a micrometer.  Object positions
\* round to 4 decimals of a meter, keypoints to 6, the others not at all.
PreRound(site, c) ==
    LET a == IF c < 0 THEN 0 - c ELSE c
        r == CASE site = "object_positions" -> 1000 * RoundHalfEven(a, 1000)
               [] site = "keypoints" -> 10 * RoundHalfEven(a, 10)
               [] OTHER -> a
    IN  [neg |-> c < 0, mag |-> r]

\* The identity a call site computes for a location: its rounding, then
\* np.round(location * 1000), then hash_vector.
SiteInstanceId(site, location) ==
    HashVector([i \in DOMAIN location |->
        FloatOf(PreRound(site, location[i]).neg,
                RoundHalfEven(PreRound(site, location[i]).mag, 10000))])

\* One call site computes the identity of the position.
CS_Identity(site) ==
    /\ hv.pc = "sites"
    /\ site \notin DOMAIN hv.ids
    /\ hv' = [hv EXCEPT !.ids = [s \in DOMAIN hv.ids \cup {site} |->
                  IF s = site THEN SiteInstanceId(site, hv_in.loc) ELSE hv.ids[s]]]
    /\ UNCHANGED <<hv_in, bb_in, bb_out, bb_done, fsVars, writerVars, cfgVars,
                   unitVars, torn, mainVars, restarts, artifact>>

\* ----------------------------------------------------------- failing file I/O

\* __enter__: the lock is acquired, then open(self.filename, "r") or
\* yaml.safe_load raises; nothing on this path releases the lock.
W_EnterReadFails(w) ==
    LET p == wpath[w]
    IN  /\ wpc[w] = "rendered"
        /\ LockFree(p)
        /\ file[p].st # "absent"
        /\ lock' = [lock EXCEPT ![p] = w]
        /\ wpc' = [wpc EXCEPT ![w] = "failed"]
        /\ UNCHANGED <<file, wpath, wstep, wdata, emitted, cfgVars, unitVars, torn,
                       mainVars, restarts, artifact, fnVars>>

\* The with-block raises after writer.data.update(...) or after add_step;
\* __exit__ runs with the exception: it dumps self.data, releases the lock and
\* returns None, so the exception goes on.
W_BodyRaises(w) ==
    LET p == wpath[w]
        updated == [type |-> SourceType(p)] @@ wdata[w]
    IN  /\ wpc[w] = "entered"
        /\ \E d \in {updated, AddStep(updated, wstep[w], StepDicts(p, wstep[w]))} :
              /\ wdata' = [wdata EXCEPT ![w] = d]
              /\ file' = [file EXCEPT ![p] = Written(OpenW(@), d)]
        /\ lock' = [lock EXCEPT ![p] = NoHolder]
        /\ wpc' = [wpc EXCEPT ![w] = "failed"]
        /\ UNCHANGED <<wpath, wstep, emitted, cfgVars, unitVars, torn,
                       mainVars, restarts, artifact, fnVars>>

\* __exit__: open(self.filename, "w") raises; self.lock.release() is not reached.
W_ExitOpenFails(w) ==
    /\ wpc[w] = "body"
    /\ wpc' = [wpc EXCEPT ![w] = "failed"]
    /\ UNCHANGED <<fsVars, wpath, wstep, wdata, emitted, cfgVars, unitVars, torn,
                   mainVars, restarts, artifact, fnVars>>

\* __exit__: yaml.safe_dump raises; the file stays as the dump left it and
\* self.lock.release() is not reached.
W_ExitDumpFails(w) ==
    /\ wpc[w] = "opened"
    /\ wpc' = [wpc EXCEPT ![w] = "failed"]
    /\ UNCHANGED <<fsVars, wpath, wstep, wdata, emitted, cfgVars, unitVars, torn,
                   mainVars, restarts, artifact, fnVars>>

\* _safe_read / _safe_write: open, yaml.safe_load or yaml.dump raises inside
\* `with lock.acquire():`, which releases the lock; the error leaves run().
U_IOFails(u) ==
    /\ upc[u] \in {"scan_locked", "poll_locked", "w_locked", "w_opened"}
    /\ lock' = [lock EXCEPT ![cur[u].path] = NoHolder]
    /\ Fail(u)
    /\ UNCHANGED <<file, writerVars, cfgVars, input_metadata, output_metadata,
                   processed_steps, expected_steps, sensor_name, scan, cur,
                   calls, allCalls, torn, mainVars, restarts, artifact, fnVars>>

\* ------------------------------------------------------------ specifications

WriterNext(w) ==
    \/ W_ArtifactOpen(w)
    \/ W_ArtifactClose(w)
    \/ W_Enter(w)
    \/ W_EnterTimeout(w)
    \/ W_Body(w)
    \/ W_ExitOpen(w)
    \/ W_ExitDump(w)
    \/ W_ExitRelease(w)

UnitNext(u) ==
    \/ U_Await(u)
    \/ U_Acquire(u)
    \/ U_Timeout(u)
    \/ U_ScanRead(u)
    \/ U_Loop(u)
    \/ U_PollRead(u)
    \/ U_ProcessOpen(u)
    \/ U_Process(u)
    \/ U_Final(u)
    \/ U_WriteOpen(u)
    \/ U_WriteDump(u)

Next ==
    \/ \E w \in Writers : WriterNext(w)
    \/ \E u \in Units : UnitNext(u)
    \/ M_Start
    \/ M_Join

\* The state of a postprocessing process when main() begins.
InitProcess ==
    /\ upc = [u \in Units |-> "init"]
    /\ input_metadata = [u \in Units |-> EmptyDict]
    /\ output_metadata = [u \in Units |-> <<>>]
    /\ processed_steps = [u \in Units |-> EmptyDict]
    /\ expected_steps = [u \in Units |-> 0]
    /\ sensor_name = [u \in Units |-> ""]
    /\ scan = [u \in Units |-> {}]
    /\ cur = [u \in Units |-> NoCur]
    /\ calls = [u \in Units |-> [n \in Steps |-> 0]]
    /\ allCalls = [u \in Units |-> <<>>]
    /\ mpc = "starting"
    /\ started = 0
    /\ joined = 0

\* An empty output tree, the renderer and the postprocessing process starting.
InitTree ==
    /\ file = [p \in Paths |-> AbsentFile]
    /\ lock = [p \in Paths |-> NoHolder]
    /\ wpc = [w \in Writers |-> "idle"]
    /\ wpath = [w \in Writers |-> NoPath]
    /\ wstep = [w \in Writers |-> -1]
    /\ wdata = [w \in Writers |-> <<>>]
    /\ emitted = [w \in Writers |-> {}]
    /\ InitProcess
    /\ torn = FALSE
    /\ restarts = 0
    /\ artifact = NoArtifacts

\* No transform is being looked at on its own.
FnIdle ==
    /\ bb_in = <<>>
    /\ bb_out = <<>>
    /\ bb_done = TRUE
    /\ hv_in = <<>>
    /\ hv = <<>>

\* The config of a unit, with or without the optional expected_steps (-1: without).
UnitConfig(id, sources, expected) ==
    IF expected = -1
    THEN [id |-> id, sources |-> sources]
    ELSE [id |-> id, sources |-> sources, expected_steps |-> expected]

ExpectedChoices == {-1} \cup (0..JobSteps)

\* One renderer with two outputs; one unit that needs both.
Init ==
    /\ InitTree
    /\ FnIdle
    /\ outputs = [r1 |-> {"s1", "s2"}, r2 |-> {}]
    /\ jobs = <<"A">>
    /\ \E e \in ExpectedChoices :
          config = [A |-> UnitConfig("A", <<"s1", "s2">>, e),
                    B |-> UnitConfig("B", <<"A">>, -1)]

Spec == Init /\ [][Next]_vars

\* Two renderers with the same output; one unit that reads it.
InitLock ==
    /\ InitTree
    /\ FnIdle
    /\ outputs = [r1 |-> {"s1"}, r2 |-> {"s1"}]
    /\ jobs = <<"A">>
    /\ config = [A |-> UnitConfig("A", <<"s1">>, -1),
                 B |-> UnitConfig("B", <<"A">>, -1)]

SpecLock == InitLock /\ [][Next]_vars

\* One renderer with one output; unit A reads it, unit B reads A's ledger.
InitChain ==
    /\ InitTree
    /\ FnIdle
    /\ outputs = [r1 |-> {"s1"}, r2 |-> {}]
    /\ jobs = <<"A", "B">>
    /\ config = [A |-> UnitConfig("A", <<"s1">>, -1),
                 B |-> UnitConfig("B", <<"A">>, -1)]

SpecChain == InitChain /\ [][Next]_vars

\* One renderer with one output; unit B reads it; unit A needs it and a second
\* source that nothing in the job produces.
InitMissing ==
    /\ InitTree
    /\ FnIdle
    /\ outputs = [r1 |-> {"s1"}, r2 |-> {}]
    /\ jobs = <<"A", "B">>
    /\ config = [A |-> UnitConfig("A", <<"s1", "s2">>, -1),
                 B |-> UnitConfig("B", <<"s1">>, -1)]

SpecMissing == InitMissing /\ [][Next]_vars

\* The postprocessing process ends or is killed outside a ledger access, and
\* is started afresh over the same output tree: every unit is constructed anew.
P_Restart ==
    /\ restarts < MaxRestarts
    /\ mpc # "starting"
    /\ \A u \in Units : upc[u] \notin {"scan_locked", "poll_locked", "w_locked", "w_opened"}
    /\ restarts' = restarts + 1
    /\ upc' = [u \in Units |-> "init"]
    /\ input_metadata' = [u \in Units |-> EmptyDict]
    /\ output_metadata' = [u \in Units |-> <<>>]
    /\ processed_steps' = [u \in Units |-> EmptyDict]
    /\ expected_steps' = [u \in Units |-> 0]
    /\ sensor_name' = [u \in Units |-> ""]
    /\ scan' = [u \in Units |-> {}]
    /\ cur' = [u \in Units |-> NoCur]
    /\ calls' = [u \in Units |-> [n \in Steps |-> 0]]
    /\ allCalls' = [u \in Units |-> <<>>]
    /\ mpc' = "starting"
    /\ started' = 0
    /\ joined' = 0
    /\ UNCHANGED <<fsVars, writerVars, cfgVars, torn, artifact, fnVars>>

NextRestart ==
    \/ Next
    \/ P_Restart

SpecRestart == Init /\ [][NextRestart]_vars

\* Runs in which no lock acquisition times out: every process keeps being
\* scheduled, and a lock that is released again and again is acquired.
NextLive ==
    \/ \E w \in Writers :
          \/ W_ArtifactOpen(w) \/ W_ArtifactClose(w) \/ W_Enter(w)
          \/ W_Body(w) \/ W_ExitOpen(w) \/ W_ExitDump(w) \/ W_ExitRelease(w)
    \/ \E u \in Units :
          \/ U_Await(u) \/ U_Acquire(u) \/ U_ScanRead(u) \/ U_Loop(u)
          \/ U_PollRead(u) \/ U_ProcessOpen(u) \/ U_Process(u) \/ U_Final(u)
          \/ U_WriteOpen(u) \/ U_WriteDump(u)
    \/ M_Start
    \/ M_Join

Fairness ==
    /\ \A w \in Writers :
          /\ SF_vars(W_Enter(w))
          /\ WF_vars(W_ArtifactOpen(w) \/ W_ArtifactClose(w) \/ W_Body(w)
                     \/ W_ExitOpen(w) \/ W_ExitDump(w) \/ W_ExitRelease(w))
    /\ \A u \in Units :
          /\ SF_vars(U_Acquire(u))
          /\ WF_vars(U_Await(u) \/ U_ScanRead(u) \/ U_Loop(u) \/ U_PollRead(u)
                     \/ U_ProcessOpen(u) \/ U_Process(u) \/ U_Final(u)
                     \/ U_WriteOpen(u) \/ U_WriteDump(u))
    /\ WF_vars(M_Start)
    /\ WF_vars(M_Join)

\* One renderer with two outputs; one unit that needs both and expects as many
\* steps as the job renders, by its config or by its first source's ledger.
InitLive ==
    /\ InitTree
    /\ FnIdle
    /\ outputs = [r1 |-> {"s1", "s2"}, r2 |-> {}]
    /\ jobs = <<"A">>
    /\ \E e \in {-1, JobSteps} :
          config = [A |-> UnitConfig("A", <<"s1", "s2">>, e),
                    B |-> UnitConfig("B", <<"A">>, -1)]

SpecLive == InitLive /\ [][NextLive]_vars /\ Fairness

\* Runs with fresh starts of the postprocessing process in which no lock
\* acquisition times out and every process keeps being scheduled.
NextRestartLive ==
    \/ NextLive
    \/ P_Restart

SpecRestartLive == InitLive /\ [][NextRestartLive]_vars /\ Fairness

\* One renderer with one output; unit A reads it, expecting one step or all
\* of them; unit B lists A's ledger only.
InitChainLive ==
    /\ InitTree
    /\ FnIdle
    /\ outputs = [r1 |-> {"s1"}, r2 |-> {}]
    /\ jobs = <<"A", "B">>
    /\ \E e \in {-1} \cup (1..JobSteps) :
          config = [A |-> UnitConfig("A", <<"s1">>, e),
                    B |-> UnitConfig("B", <<"A">>, -1)]

SpecChainLive == InitChainLive /\ [][NextLive]_vars /\ Fairness

\* An image pair with background (class 0, instance id 0) and one instance
\* (id 1) on rows r1..r2, columns c1..c2: its columns up to cm have class
\* `left`, the columns after cm have class `right`.
RectImage(H, W, r1, r2, c1, cm, c2, left, right) ==
    LET inside(px) == r1 <= px[1] /\ px[1] <= r2 /\ c1 <= px[2] /\ px[2] <= c2
        P == (0..(H - 1)) \X (0..(W - 1))
    IN  [H |-> H, W |-> W,
         sem |-> [px \in P |-> IF inside(px)
                               THEN (IF px[2] <= cm THEN left ELSE right)
                               ELSE 0],
         inst |-> [px \in P |-> IF inside(px) THEN 1 ELSE 0]]

\* The calls of process_step looked at: every rectangle instance on a small
\* image, with any classes_to_skip and either mode; and the 10x10 image with
\* class 5 on rows 2-7, columns 2-7, nothing skipped.
BBInputs ==
    {[img |-> RectImage(SmallH, SmallW, r1, r2, c1, cm, c2, 1, 2),
      rect |-> [r1 |-> r1, r2 |-> r2, c1 |-> c1, cm |-> cm, c2 |-> c2],
      classes_to_skip |-> skip,
      multiple_bb_per_instance |-> multi] :
        r1 \in 0..(SmallH - 1), r2 \in 0..(SmallH - 1),
        c1 \in 0..(SmallW - 1), cm \in 0..(SmallW - 1), c2 \in 0..(SmallW - 1),
        skip \in SUBSET {0, 1, 2}, multi \in BOOLEAN}
    \cup
    {[img |-> RectImage(10, 10, 2, 7, 2, 7, 7, 5, 5),
      rect |-> [r1 |-> 2, r2 |-> 7, c1 |-> 2, cm |-> 7, c2 |-> 7],
      classes_to_skip |-> {},
      multiple_bb_per_instance |-> multi] : multi \in BOOLEAN}

\* A postprocessing unit is handed one step's images; nothing else runs.
InitBB ==
    /\ InitTree
    /\ outputs = [r1 |-> {}, r2 |-> {}]
    /\ jobs = <<>>
    /\ config = [A |-> UnitConfig("A", <<"s1", "s2">>, -1),
                 B |-> UnitConfig("B", <<"A">>, -1)]
    /\ bb_in \in {i \in BBInputs : i.rect.r1 <= i.rect.r2 /\ i.rect.c1 <= i.rect.cm
                                    /\ i.rect.cm <= i.rect.c2}
    /\ bb_out = <<>>
    /\ bb_done = FALSE
    /\ hv_in = <<>>
    /\ hv = <<>>

SpecBB == InitBB /\ [][BB_ProcessStep]_vars

\* Coordinates, in tenths of a millimeter: either side of zero, one
\* millimeter, and two neighbouring millimeter values where float32 is coarse.
XChoices == {-4, 4, 10, 10 * F32Exact, 10 * (F32Exact + 1)}
YChoices == {-4, 4, 10}
ZChoices == {4, 10}

\* The renderer computes the identities of two positions and postprocesses an
\* image holding them; then it is run again.  Nothing else runs.
InitHash ==
    /\ InitTree
    /\ outputs = [r1 |-> {}, r2 |-> {}]
    /\ jobs = <<>>
    /\ config = [A |-> UnitConfig("A", <<"s1", "s2">>, -1),
                 B |-> UnitConfig("B", <<"A">>, -1)]
    /\ bb_in = <<>>
    /\ bb_out = <<>>
    /\ bb_done = TRUE
    /\ hv_in \in [p1 : XChoices \X YChoices \X ZChoices,
                  p2 : XChoices \X YChoices \X ZChoices,
                  collide : BOOLEAN]
    /\ \E s \in HashSeeds :
          hv = [pc |-> "start", seed |-> s, id1 |-> <<>>, id2 |-> <<>>,
                again |-> <<>>, values |-> <<>>, img |-> <<>>, warned |-> FALSE]

NextHash ==
    \/ HV_CalculateInstanceId
    \/ PA_Postprocess
    \/ HV_NewProcess
    \/ HV_CalculateAgain

SpecHash == InitHash /\ [][NextHash]_vars

\* One position, in tenths of a micrometer, whose identity every call site
\* computes, in any order.
InitSites ==
    /\ InitTree
    /\ outputs = [r1 |-> {}, r2 |-> {}]
    /\ jobs = <<>>
    /\ config = [A |-> UnitConfig("A", <<"s1", "s2">>, -1),
                 B |-> UnitConfig("B", <<"A">>, -1)]
    /\ bb_in = <<>>
    /\ bb_out = <<>>
    /\ bb_done = TRUE
    /\ \E loc \in {14400, 14600, 24600, 25600, -14600, 4000}
                    \X {14600, 10000, -4000, 4000} \X {10000, 14600, 20000} :
          hv_in = [loc |-> loc, collide |-> FALSE]
    /\ hv = [pc |-> "sites", ids |-> <<>>]

SpecSites == InitSites /\ [][\E site \in CallSites : CS_Identity(site)]_vars

\* One renderer with one output; unit A reads it and is configured to expect
\* one step; unit B lists A first and the renderer's output second.
InitOrder ==
    /\ InitTree
    /\ FnIdle
    /\ outputs = [r1 |-> {"s1"}, r2 |-> {}]
    /\ jobs = <<"A", "B">>
    /\ config = [A |-> UnitConfig("A", <<"s1">>, 1),
                 B |-> UnitConfig("B", <<"A", "s1">>, -1)]

SpecOrder == InitOrder /\ [][Next]_vars

\* The steps of the renderer and of units A and B, and the failures of their
\* file operations.
NextFaulty ==
    \/ Next
    \/ \E w \in Writers : W_EnterReadFails(w)
    \/ \E w \in Writers : W_BodyRaises(w)
    \/ \E w \in Writers : W_ExitOpenFails(w)
    \/ \E w \in Writers : W_ExitDumpFails(w)
    \/ \E u \in Units : U_IOFails(u)

SpecFaulty == InitChain /\ [][NextFaulty]_vars

\* ===================================================================== claims

\* The step numbers a ledger file lists on disk.
DiskSteps(p) ==
    IF "steps" \in DOMAIN file[p].text
    THEN {file[p].text.steps[i][1] : i \in DOMAIN file[p].text.steps}
    ELSE {}

\* The steps every source of the dict lists.
CommonSteps(im) ==
    {n \in Steps : \A i \in DOMAIN im : Has(im[i][2].metadata.steps, n)}

\* A transition in which unit u completes a _safe_read of a poll.
PollReads(u) == upc[u] = "poll_locked" /\ upc'[u] # "poll_locked"

\* A transition in which unit u completes the last _safe_read of a poll.
PollEnds(u) == PollReads(u) /\ cur[u].idx = Len(input_metadata[u])

\* C1: step records are created only by a poll; each source's step set the
\* poll uses is the one its ledger held on disk when the poll read it; and the
\* poll that has read every required source creates one record for exactly
\* the steps all of them list and that had no record yet.
C1_StepIntersection ==
    [][\A u \in Units :
        LET old == KeySet(processed_steps[u])
            new == KeySet(processed_steps'[u])
        IN  /\ new \subseteq old \/ PollEnds(u)
            /\ PollReads(u) =>
                  KeySet(input_metadata'[u][cur[u].idx][2].metadata.steps)
                      = DiskSteps(cur[u].path)
            /\ PollEnds(u) =>
                  /\ upc'[u] # "failed"
                  /\ \A i \in DOMAIN config[u].sources :
                        Has(input_metadata'[u], config[u].sources[i])
                  /\ new = old \cup CommonSteps(input_metadata'[u])
                  /\ Len(processed_steps'[u]) = Cardinality(new)
      ]_vars

\* C1 witness: the sources list {0,1} and {1}; the unit has polled them and
\* holds a record for step 1 alone.
C1_Witness ==
    /\ DiskSteps("s1") = {0, 1}
    /\ DiskSteps("s2") = {1}
    /\ upc["A"] = "process"
    /\ KeySet(Get(input_metadata["A"], "s1").metadata.steps) = {0, 1}
    /\ Keys(processed_steps["A"]) = <<1>>

\* C2: within one run() process_step is called at most once per step number;
\* a step record, once created, keeps its place, its step number and its
\* source snapshot through every later poll (it is neither deleted nor
\* re-created), and its finished flag never goes from true back to false.
C2_AtMostOnce ==
    [][\A u \in Units :
        /\ \A n \in Steps : calls'[u][n] <= 1
        /\ \A i \in DOMAIN processed_steps[u] :
              /\ i \in DOMAIN processed_steps'[u]
              /\ processed_steps'[u][i][1] = processed_steps[u][i][1]
              /\ processed_steps'[u][i][2].sources = processed_steps[u][i][2].sources
              /\ processed_steps[u][i][2].finished => processed_steps'[u][i][2].finished
      ]_vars

\* C2 witness: step 0 was processed once and is finished; a later poll, after
\* the sources grew, added the record of step 1 behind it.
C2_Witness ==
    /\ upc["A"] = "process"
    /\ cur["A"].step = 1
    /\ calls["A"] = [n \in Steps |-> IF n = 0 THEN 1 ELSE 0]
    /\ Keys(processed_steps["A"]) = <<0, 1>>
    /\ Get(processed_steps["A"], 0).finished
    /\ ~Get(processed_steps["A"], 1).finished

\* C3: when no lock acquisition times out and the sources come to list all
\* the job's steps, a unit whose expected_steps is that number reaches
\* ALL_STEPS_DONE and run() returns; from then on it stays returned and holds
\* no ledger lock, so it reads no ledger again.
C3_Termination ==
    <>[](/\ upc["A"] = "done"
         /\ \A p \in Paths : lock[p] # "A")

\* C3 witness: expected_steps is the number of steps of the job, both sources
\* list them all, every record is finished and run() has returned.
C3_Witness ==
    /\ upc["A"] = "done"
    /\ expected_steps["A"] = JobSteps
    /\ DiskSteps("s1") = Steps
    /\ DiskSteps("s2") = Steps
    /\ FinishedCount(processed_steps["A"]) = JobSteps

\* The processes that have a ledger file open for writing.
WritingTo(p) ==
    {w \in Writers : wpc[w] = "opened" /\ wpath[w] = p}
        \cup {u \in Units : upc[u] = "w_opened" /\ UnitPath(u) = p}

\* The units that are inside a _safe_read of a ledger file.
ReadingFrom(p) ==
    {u \in Units : upc[u] \in {"scan_locked", "poll_locked"} /\ cur[u].path = p}

\* C4: on every ledger path at most one process has the file open for writing,
\* no _safe_read of the path runs while a write to it is unfinished, and no
\* process has ever opened a ledger that another one had truncated and not yet
\* rewritten: each read sees the complete content before or after a write.
C4_MutualExclusion ==
    /\ ~torn
    /\ \A p \in Paths :
          /\ Cardinality(WritingTo(p)) <= 1
          /\ ReadingFrom(p) # {} => WritingTo(p) = {} /\ file[p].st # "trunc"
          /\ WritingTo(p) \cup ReadingFrom(p) # {} => lock[p] \in WritingTo(p) \cup ReadingFrom(p)

\* C4 witness: one renderer has truncated the ledger and not yet rewritten it
\* while the other renderer has a context to write and the unit wants to read
\* the same ledger.
C4_Witness ==
    /\ wpc["r1"] = "opened"
    /\ file["s1"].st = "trunc"
    /\ file["s1"].before # <<>>
    /\ wpc["r2"] = "idle"
    /\ emitted["r2"] = {}
    /\ upc["A"] = "poll"
    /\ Wanted("A") = {"s1"}

\* The text a ledger file held after the last write to it that completed.
LastWritten(p) == IF file[p].st = "trunc" THEN file[p].before ELSE file[p].text

\* The `steps` mapping of a ledger text ({} when the key is missing).
StoredSteps(text) == IF "steps" \in DOMAIN text THEN text.steps ELSE EmptyDict

\* C5: over every write to every ledger file, also the writes of a unit
\* process started afresh over a tree that holds its ledger, each step key
\* stored on disk stays stored and keeps its artifact list.
C5_LedgerMonotonic ==
    [][\A p \in Paths :
        LET old == StoredSteps(LastWritten(p))
            new == StoredSteps(LastWritten(p))'
        IN  \A n \in KeySet(old) : Has(new, n) /\ Get(new, n) = Get(old, n)
      ]_vars

\* C6: once a unit's run() has ended with an uncaught exception, main() does
\* not return normally and no other unit takes a further step.
C6_FailureIsFatal ==
    [][(\E u \in Units : upc[u] = "failed") =>
           /\ mpc' # "returned"
           /\ \A v \in Units : upc'[v] = upc[v]
      ]_vars

\* C7: process_all_steps is called at most once in a run and exactly once in
\* a run that returns; each call happens with as many finished step records
\* as expected_steps; no process_step call follows it.
C7_ProcessAllStepsOnce ==
    [][\A u \in Units :
        /\ Len(allCalls'[u]) <= 1
        /\ \A i \in DOMAIN allCalls'[u] : allCalls'[u][i] = expected_steps'[u]
        /\ upc'[u] = "done" => Len(allCalls'[u]) = 1
        /\ allCalls[u] # <<>> => calls'[u] = calls[u]
      ]_vars

\* C7 witness: run() returned after process_step ran for every step of the
\* job and process_all_steps ran once, with all of them finished.
C7_Witness ==
    /\ upc["A"] = "done"
    /\ allCalls["A"] = <<JobSteps>>
    /\ calls["A"] = [n \in Steps |-> 1]
    /\ mpc = "returned"

\* C8: a unit that has left AWAITING_SOURCES holds, for every id of its
\* config `sources`, a ledger found in the tree whose id field is that id.
C8_SourcesFound ==
    \A u \in Units :
        upc[u] \notin {"init", "await", "scan", "scan_locked", "failed"} =>
            \A i \in DOMAIN config[u].sources :
                /\ Has(input_metadata[u], config[u].sources[i])
                /\ LET found == Get(input_metadata[u], config[u].sources[i])
                   IN  /\ found.metadata.id = config[u].sources[i]
                       /\ file[found.path].st # "absent"
                       /\ "id" \in DOMAIN LastWritten(found.path)
                       /\ LastWritten(found.path).id = config[u].sources[i]

\* C8 witness: the unit has just left AWAITING_SOURCES, having found its two
\* sources in the order opposite to the config's.
C8_Witness ==
    /\ upc["A"] = "loop"
    /\ config["A"].sources = <<"s1", "s2">>
    /\ Keys(input_metadata["A"]) = <<"s2", "s1">>
    /\ processed_steps["A"] = EmptyDict

\* The positions of run() at which a unit waits for a ledger lock, and those
\* at which it holds one.
AcquirePcs == {"scan", "poll", "write"}
LockedPcs == {"scan_locked", "poll_locked", "w_locked"}

\* C9: a ledger read or write whose lock acquisition times out ends with the
\* timeout error while another process holds the lock, leaves every ledger
\* file and lock as they were and has taken nothing into the caller's data;
\* and an operation goes on to its read or write only with the lock acquired.
C9_TimeoutLeavesLedger ==
    [][/\ \A u \in Units :
            /\ upc[u] \in AcquirePcs /\ upc'[u] = "failed" =>
                  /\ \E p \in Wanted(u) : LockBusy(p, u)
                  /\ file' = file
                  /\ lock' = lock
                  /\ input_metadata'[u] = input_metadata[u]
                  /\ output_metadata'[u] = output_metadata[u]
                  /\ processed_steps'[u] = processed_steps[u]
            /\ upc[u] \in AcquirePcs /\ upc'[u] \in LockedPcs =>
                  /\ cur'[u].path \in Wanted(u)
                  /\ lock[cur'[u].path] = NoHolder
                  /\ lock'[cur'[u].path] = u
       /\ \A w \in Writers :
            /\ wpc[w] = "rendered" /\ wpc'[w] = "failed" =>
                  /\ LockBusy(wpath[w], w)
                  /\ file' = file
                  /\ lock' = lock
                  /\ wdata'[w] = wdata[w]
            /\ wpc[w] = "rendered" /\ wpc'[w] = "entered" =>
                  /\ lock[wpath'[w]] = NoHolder
                  /\ lock'[wpath'[w]] = w
      ]_vars

\* C9 witness: unit A's write of its ledger timed out while unit B held the
\* lock for reading it; the ledger still holds what A wrote before.
C9_Witness ==
    /\ upc["A"] = "failed"
    /\ cur["A"].after = "mark"
    /\ lock["A"] = "B"
    /\ file["A"].st = "ok"
    /\ DiskSteps("A") = {0}
    /\ KeySet(StoredSteps(output_metadata["A"])) = {0, 1}

\* The steps added to ledger p by the AtomicYAMLWriter contexts completed.
Added(p) == {n \in Steps : \E w \in Writers : <<p, n>> \in emitted[w]}

\* C10: a _safe_read of a renderer's ledger returns a `steps` mapping whose
\* keys are exactly the steps the completed AtomicYAMLWriter contexts added,
\* each once and each with the artifact list it was added with, whatever the
\* order of the contexts.
C10_ReadReturnsAddedSteps ==
    [][\A u \in Units :
        LET p == cur[u].path
        IN  /\ upc[u] \in {"scan_locked", "poll_locked"}
            /\ upc'[u] # upc[u]
            /\ p \in SourcePaths
            => /\ Has(input_metadata'[u], p)
               /\ LET steps == Get(input_metadata'[u], p).metadata.steps
                  IN  /\ KeySet(steps) = Added(p)
                      /\ Len(steps) = Cardinality(Added(p))
                      /\ \A n \in Added(p) : Get(steps, n) = StepDicts(p, n)
      ]_vars

\* C10 witness: one renderer added step 1, the unit polled, then the other
\* renderer added step 0; the unit's latest read returned both steps.
C10_Witness ==
    /\ emitted["r1"] = {<<"s1", 1>>}
    /\ emitted["r2"] = {<<"s1", 0>>}
    /\ Keys(processed_steps["A"]) = <<1, 0>>
    /\ Keys(Get(input_metadata["A"], "s1").metadata.steps) = <<0, 1>>
    /\ Get(Get(input_metadata["A"], "s1").metadata.steps, 1) = StepDicts("s1", 1)

\* The ledger an uninterrupted run of the unit leaves when it has processed
\* every step of the job: one entry per step, as dumped.
FullLedgerSteps(u) ==
    DumpSteps([i \in 1..JobSteps |-> ProcessStep(u, i - 1)[1]])

C12_ArtifactBeforeLedger ==
    /\ \A p \in Paths :
          \A n \in KeySet(StoredSteps(LastWritten(p))) \cup DiskSteps(p) :
              artifact[p][n] = "closed"
    /\ \A w \in Writers :
          wpc[w] \in {"entered", "body", "opened", "dumped"} =>
              artifact[wpath[w]][wstep[w]] = "closed"
    /\ \A u \in Units :
          upc[u] \in {"write", "w_locked", "w_opened"} /\ cur[u].after = "mark" =>
              artifact[UnitPath(u)][cur[u].step] = "closed"

\* C12 witness: the ledger of output s1 lists step 0, whose artifact file is
\* closed, while the renderer is writing the artifact of step 1, which the
\* ledger does not list; the unit is writing the output file of step 0, which
\* its own ledger does not list.
C12_Witness ==
    /\ DiskSteps("s1") = {0}
    /\ artifact["s1"][0] = "closed"
    /\ artifact["s1"][1] = "open"
    /\ wpc["r1"] = "rendering"
    /\ upc["A"] = "p_opened"
    /\ artifact["A"][0] = "open"
    /\ DiskSteps("A") = {}

\* Some id of the unit's config `sources` has no ledger in the output tree.
SourceMissing(u) ==
    \E i \in DOMAIN config[u].sources :
        \A p \in Paths :
            \/ file[p].st = "absent"
            \/ "id" \notin DOMAIN LastWritten(p)
            \/ LastWritten(p).id # config[u].sources[i]

\* The positions of run() that make up AWAITING_SOURCES.
AwaitingPcs == {"await", "scan", "scan_locked"}

\* C13: while an id of `sources` has no ledger in the tree, a started unit is
\* in AWAITING_SOURCES and can take a further polling step; it has called
\* neither process_step nor process_all_steps and has written no ledger; it
\* never returns, and the only way it ends is a lock timeout of a ledger read.
C13_AwaitsForever ==
    [][\A u \in Units :
        SourceMissing(u) /\ upc[u] # "init" =>
            /\ upc[u] \in AwaitingPcs \cup {"failed"}
            /\ upc[u] \in AwaitingPcs => ENABLED UnitNext(u)
            /\ upc'[u] \in AwaitingPcs \cup {"failed"}
            /\ upc[u] # "failed" /\ upc'[u] = "failed" =>
                  \E p \in Wanted(u) : LockBusy(p, u)
            /\ calls[u] = [n \in Steps |-> 0]
            /\ allCalls[u] = <<>>
            /\ file[UnitPath(u)].st = "absent"
            /\ artifact[UnitPath(u)] = [n \in Steps |-> "absent"]
      ]_vars

\* C13 witness: the renderer has written every step of s1 and unit B has
\* processed them all and returned; unit A, whose source s2 has no ledger, has
\* found s1 and is still polling.
C13_Witness ==
    /\ SourceMissing("A")
    /\ upc["A"] = "scan"
    /\ Keys(input_metadata["A"]) = <<"s1">>
    /\ DiskSteps("s1") = Steps
    /\ upc["B"] = "done"
    /\ DiskSteps("B") = Steps

\* The instance of the input covers one class only, which is not skipped.
OneClassInstance == bb_in.rect.cm = bb_in.rect.c2 /\ 1 \notin bb_in.classes_to_skip

\* C14: for the 10x10 image pair with class 5 on rows 2-7 and columns 2-7 and
\* nothing skipped, the step's output is the one line
\* `5 0.450000 0.450000 0.600000 0.600000`; and the width and height of an
\* instance's line are the columns and rows its box covers over the image
\* width and height.
C14_BoundingBoxLine ==
    bb_done /\ DOMAIN bb_in # {} =>
        /\ bb_in.img.H = 10 =>
              bb_out = <<[class_id |-> 5, x_center |-> 450000, y_center |-> 450000,
                          w |-> 600000, h |-> 600000]>>
        /\ bb_in.img.H # 10 /\ OneClassInstance =>
              \A i \in DOMAIN bb_out :
                  bb_out[i].class_id = 1 =>
                      /\ bb_out[i].w = Fmt6(bb_in.rect.c2 - bb_in.rect.c1 + 1, bb_in.img.W)
                      /\ bb_out[i].h = Fmt6(bb_in.rect.r2 - bb_in.rect.r1 + 1, bb_in.img.H)

\* The instance ids of an image pair.
InstanceIdsOf(img) == {img.inst[px] : px \in Pixels(img)}

\* The semantic classes the pixels of an instance have.
ClassesOf(img, instance_id) == {img.sem[px] : px \in InstancePixels(img, instance_id)}

\* C15: in either mode, an instance all of whose pixels have a class listed in
\* classes_to_skip gets no line in the step's file (in the images looked at no
\* two instances share a class, so a line is its instance's by its class).
C15_SkippedInstanceNoLine ==
    bb_done /\ DOMAIN bb_in # {} =>
        \A id \in InstanceIdsOf(bb_in.img) :
            ClassesOf(bb_in.img, id) \subseteq bb_in.classes_to_skip =>
                \A i \in DOMAIN bb_out :
                    bb_out[i].class_id \notin ClassesOf(bb_in.img, id)

\* C15 witness: multiple_bb_per_instance mode; the instance has six pixels of
\* each of two classes, both skipped; the file holds the background's line only.
C15_Witness ==
    /\ bb_done
    /\ DOMAIN bb_in # {}
    /\ bb_in.multiple_bb_per_instance
    /\ bb_in.classes_to_skip = {1, 2}
    /\ ClassCount(bb_in.img, 1, 1) > 5
    /\ ClassCount(bb_in.img, 1, 2) > 5
    /\ Len(bb_out) = 1
    /\ bb_out[1].class_id = 0


\* The rows of img_mm / the rounded locations of the two positions.
Row1 == [i \in 1..3 |-> RoundToMm(hv_in.p1[i])]
Row2 == [i \in 1..3 |-> RoundToMm(hv_in.p2[i])]

\* C16: two positions whose coordinates round to the same millimeter values
\* get the same instance identity, also when a coordinate rounds to zero from
\* the negative side in one and from the positive side in the other; two
\* positions that round to different millimeter values are packed as
\* different bytes.
C16_QuantizedIdentity ==
    hv.pc # "start" =>
        /\ SameRow(Row1, Row2) => hv.id1 = hv.id2
        /\ ~SameRow(Row1, Row2) => Pack(Row1) # Pack(Row2)

\* C17: when two different rounded positions of one image hash to the same
\* instance identity, postprocess_functions logs the collision warning.
C17_CollisionLogged ==
    (hv.pc \in {"image", "rerun", "done"} /\ ~SameRow(Row1, Row2)
        /\ hv.img[1] = hv.img[2]) => hv.warned

FinishedSteps(ps) == {ps[i][1] : i \in {j \in DOMAIN ps : ps[j][2].finished}}

C20_TimeoutEndsUnit ==
    [][\A u \in Units :
        /\ upc[u] \in AcquirePcs /\ upc'[u] # upc[u] =>
              /\ upc'[u] \in LockedPcs \cup {"failed"}
              /\ processed_steps'[u] = processed_steps[u]
              /\ upc[u] = "write" /\ cur[u].after = "mark" =>
                    cur[u].step \notin FinishedSteps(processed_steps'[u])
        /\ upc[u] = "failed" =>
              /\ upc'[u] = "failed"
              /\ \A p \in Paths : lock[p] # u /\ lock'[p] # u
              /\ input_metadata'[u] = input_metadata[u]
              /\ output_metadata'[u] = output_metadata[u]
              /\ processed_steps'[u] = processed_steps[u]
              /\ calls'[u] = calls[u]
              /\ allCalls'[u] = allCalls[u]
              /\ file'[UnitPath(u)] = file[UnitPath(u)]
              /\ cur'[u] = cur[u]
      ]_vars

\* C20 witness: unit A's write of its ledger for step 1 timed out; the lock
\* has been released since, A has not tried again, step 1 is not finished and
\* not in A's ledger, and unit B has gone on to process step 0.
C20_Witness ==
    /\ upc["A"] = "failed"
    /\ cur["A"].after = "mark"
    /\ cur["A"].step = 1
    /\ calls["A"][1] = 1
    /\ lock["A"] = NoHolder
    /\ FinishedSteps(processed_steps["A"]) = {0}
    /\ DiskSteps("A") = {0}
    /\ calls["B"][0] = 1


\* C21: the identities that two call sites have computed for the same
\* position are equal, whatever rounding each applies before the millimeter
\* quantization.
C21_CallSitesAgree ==
    hv.pc = "sites" =>
        \A s, t \in DOMAIN hv.ids : hv.ids[s] = hv.ids[t]


\* C22: once a unit is set up its expected step count is the expected_steps
\* of its config when the config has one, and otherwise the expected_steps
\* field of the ledger of the first source its config lists, in whatever
\* order the ledgers were found; and it does not change afterwards.
C22_ExpectedSteps ==
    /\ [](\A u \in Units :
            upc[u] \in {"loop", "poll", "poll_locked", "process", "p_opened",
                        "write", "w_locked", "w_opened", "final", "done"} =>
                expected_steps[u] =
                    IF "expected_steps" \in DOMAIN config[u]
                    THEN config[u].expected_steps
                    ELSE Get(input_metadata[u],
                             config[u].sources[1]).metadata.expected_steps)
    /\ [][\A u \in Units :
            upc[u] \notin {"init", "await"} => expected_steps'[u] = expected_steps[u]
         ]_vars


\* C23: with nothing skipped and one box per class, a class of an instance
\* has a line exactly when its pixel count in the instance is at least 1% of
\* the instance's pixels and at least 5 (in the images looked at no two
\* instances share a class, so a line is its instance's by its class).
C23_ClassFilter ==
    (bb_done /\ DOMAIN bb_in # {} /\ bb_in.multiple_bb_per_instance
        /\ bb_in.classes_to_skip = {}) =>
        \A id \in InstanceIdsOf(bb_in.img) :
            \A c \in ClassesOf(bb_in.img, id) :
                (\E i \in DOMAIN bb_out : bb_out[i].class_id = c)
                <=> /\ 100 * ClassCount(bb_in.img, id, c)
                          >= Cardinality(InstancePixels(bb_in.img, id))
                    /\ ClassCount(bb_in.img, id, c) >= 5


\* C24: a ledger file changes only in a step of a renderer context on that
\* ledger or in a step of the write of the one unit whose config id names it,
\* which is not one of that unit's sources; a step that ends a unit's read of
\* a ledger changes no ledger file.
C24_SingleWriter ==
    [][/\ \A p \in Paths :
            file'[p] # file[p] =>
                \/ \E w \in Writers : wpath[w] = p /\ wpc'[w] # wpc[w]
                \/ /\ Cardinality({u \in Units : config[u].id = p}) = 1
                   /\ \E u \in Units :
                         /\ config[u].id = p
                         /\ p \notin SeqToSet(config[u].sources)
                         /\ upc[u] \in {"w_locked", "w_opened"}
                         /\ upc'[u] # upc[u]
       /\ \A u \in Units :
            upc[u] \in {"scan_locked", "poll_locked"} /\ upc'[u] # upc[u] =>
                file' = file
      ]_vars

\* C24 witness: unit B is reading unit A's ledger, which lists step 0, while
\* A waits to write it again for step 1.
C24_Witness ==
    /\ upc["B"] = "poll_locked"
    /\ cur["B"].path = "A"
    /\ DiskSteps("A") = {0}
    /\ upc["A"] = "write"
    /\ cur["A"].step = 1


\* C25: a unit's ledger file, whenever a write of it has completed, holds the
\* fields id, sensor, expected_steps and steps.
C25_LedgerFields ==
    \A u \in Units :
        file[UnitPath(u)].st = "ok" =>
            {"id", "sensor", "expected_steps", "steps"}
                \subseteq DOMAIN file[UnitPath(u)].text


\* C26: a ledger lock is held only by a process that is inside a read or a
\* write of that ledger: no renderer that is outside an AtomicYAMLWriter
\* context or has failed, and no unit that is outside _safe_read and
\* _safe_write or has failed, holds one.
C26_LockReleased ==
    \A p \in Paths :
        /\ \A w \in Writers :
              lock[p] = w => wpc[w] \in {"entered", "body", "opened", "dumped"}
        /\ \A u \in Units :
              lock[p] = u => upc[u] \in LockedPcs \cup {"w_opened"}

\* C27: when the body of an AtomicYAMLWriter context raises, the ledger file
\* keeps the content it had when the context was entered.
C27_FailedBodyNotPersisted ==
    [][\A w \in Writers :
          wpc[w] = "entered" /\ wpc'[w] = "failed" =>
              file'[wpath[w]] = file[wpath[w]]
      ]_vars


\* C28: no line of the step's file carries a class id listed in
\* classes_to_skip, in either mode.
C28_NoSkippedClassLine ==
    bb_done /\ DOMAIN bb_in # {} =>
        \A i \in DOMAIN bb_out : bb_out[i].class_id \notin bb_in.classes_to_skip


\* C29: a unit never has more finished step records than its expected step
\* count, and when run() has returned process_step has been called for
\* exactly that many steps, once each.
C29_FinishedAtMostExpected ==
    \A u \in Units :
        /\ FinishedCount(processed_steps[u]) <= expected_steps[u]
        /\ upc[u] = "done" =>
              /\ \A n \in Steps : calls[u][n] <= 1
              /\ Cardinality({n \in Steps : calls[u][n] = 1}) = expected_steps[u]

\* C29 witness: the unit expects one step, both sources list two, the unit
\* holds a record for each, has processed one and run() has returned.
C29_Witness ==
    /\ upc["A"] = "done"
    /\ expected_steps["A"] = 1
    /\ DiskSteps("s1") = Steps
    /\ DiskSteps("s2") = Steps
    /\ Len(processed_steps["A"]) = 2
    /\ FinishedCount(processed_steps["A"]) = 1
    /\ Cardinality({n \in Steps : calls["A"][n] = 1}) = 1


\* C30: when no lock acquisition times out, unit A returns from run() and
\* unit B, whose only source is A's ledger, comes to process each step A's
\* ledger lists, once, to list them in its own ledger, and to return.
C30_DownstreamCompletes ==
    <>[](/\ upc["A"] = "done"
         /\ upc["B"] = "done"
         /\ DiskSteps("A") # {}
         /\ \A n \in Steps : calls["B"][n] = IF n \in DiskSteps("A") THEN 1 ELSE 0
         /\ DiskSteps("B") = DiskSteps("A"))

\* C30 witness: A expects one step by its config although the renderer's
\* ledger lists two; A and B have each processed that one step and returned.
C30_Witness ==
    /\ upc["A"] = "done"
    /\ upc["B"] = "done"
    /\ config["A"].expected_steps = 1
    /\ DiskSteps("s1") = Steps
    /\ Cardinality(DiskSteps("A")) = 1
    /\ DiskSteps("B") = DiskSteps("A")
    /\ mpc = "returned"

====
